---- MODULE Spec2Model ----
(***************************************************************************)
(* Job lifecycle and progress composition of the media-conversion service. *)
(*                                                                         *)
(* The job store is lib/jobs.ts (the persisted variant: in-memory map plus *)
(* one JSON snapshot per job), the remote-source runner is the async block *)
(* of the youtube-to-mp3 route, the local runner is the async block of the *)
(* convert route, the sweeper is the production cleanup scheduler and the  *)
(* retrieval path is GET /api/jobs/[id]?download=1.                        *)
(*                                                                         *)
(* Time is counted in hours.  A job record is a function whose domain is   *)
(* the set of its defined properties: a JavaScript property that is absent *)
(* and one whose value is undefined read the same everywhere in the code,  *)
(* and JSON.stringify drops both.                                          *)
(***************************************************************************)
EXTENDS Integers, Sequences, FiniteSets, TLC

\* ------------------------------------------------------------------ bounds
JobIds == {1}         \* ids of the jobs the routes create
StoreIds == {1, 2}    \* ids of the jobs created through the store directly
Convs == {1, 2}       \* job ids of the conversions the extension has started
MaxTime == 36         \* the clock stops advancing here (hours)
TickHours == 12       \* one clock step (hours)
MaxStoreTime == 12    \* the same for the runs that call the store directly
SubProgress == {-10, 5, 50, 150}   \* values a collaborator reports (integers)
ComposeBelow == 30    \* the compositor is fed sub-progress from -ComposeBelow ...
ComposeHi == 230      \* ... up to ComposeHi
MaxAdds == 120        \* addToHistory calls in the runs of the history alone
MaxIssued == 4        \* createJob and updateJob calls made against one job

\* --------------------------------------------------------- program constants
MaxAgeHours == 24     \* cleanupOldJobs(24) / cleanupOldFiles(24)
MAX_POLL_ATTEMPTS == 120   \* shared/config.ts
HistoryLimit == 50         \* shared/storage.ts, addToHistory

VARIABLES
    now,         \* Date.now(), in hours
    production,  \* process.env.NODE_ENV === 'production'
    nextId,      \* number of job ids issued so far (ids are fresh random values)
    jobs,        \* the in-memory Map<string, Job>
    disk,        \* JOBS_DIR: id -> parsed content of <id>.json
    files,       \* TEMP_DIR: path -> mtime of each existing file
    run,         \* id -> state of the async execution that drives the job
    resp,        \* the answer the last caller got: the HTTP response of
                 \* GET /api/jobs/[id], or the return of a direct store call
    comp,        \* input and output of the progress mapping taken on its own
    activeJobs,  \* browser extension, chrome.storage.local 'activeJobs'
    history,     \* browser extension, chrome.storage.local 'history'
    poll,        \* browser extension, id -> state of pollJobStatus for the job
    inflight,    \* browser extension, storage calls between their read and write
    issued       \* patches handed to updateJob so far, in order (bookkeeping)

ExtVars == <<activeJobs, history, poll, inflight, issued>>

vars == <<now, production, nextId, jobs, disk, files, run, resp, comp, ExtVars>>

Max(a, b) == IF a >= b THEN a ELSE b
Min(a, b) == IF a <= b THEN a ELSE b

\* ----------------------------------------------------------- Date <-> ISO text
\* Date.prototype.toISOString: the instant written out in decimal digits.
Digit(n) == SubSeq("0123456789", n + 1, n + 1)

RECURSIVE ToISOString(_)
ToISOString(t) ==
    IF t < 10 THEN Digit(t) ELSE ToISOString(t \div 10) \o Digit(t % 10)

DigitValue(c) == CHOOSE n \in 0..9 : Digit(n) = c

\* new Date(text): the decimal digits read back.
RECURSIVE NewDate(_)
NewDate(s) ==
    IF Len(s) = 1 THEN DigitValue(s)
    ELSE 10 * NewDate(SubSeq(s, 1, Len(s) - 1)) + DigitValue(SubSeq(s, Len(s), Len(s)))

DateFields == {"createdAt", "updatedAt"}

serializeJob(job) ==
    [f \in DOMAIN job |-> IF f \in DateFields THEN ToISOString(job[f]) ELSE job[f]]

hydrateJob(data) ==
    [f \in DOMAIN data |-> IF f \in DateFields THEN NewDate(data[f]) ELSE data[f]]

\* ------------------------------------------------------------------ job store
\* { ...a, ...b }
Spread(a, b) ==
    [f \in DOMAIN a \cup DOMAIN b |-> IF f \in DOMAIN b THEN b[f] ELSE a[f]]

\* Map.set / writeFileSync of one entry
MapSet(m, k, v) == [x \in DOMAIN m \cup {k} |-> IF x = k THEN v ELSE m[x]]
MapDelete(m, k) == [x \in DOMAIN m \ {k} |-> m[x]]

\* persistJob: writeFileSync(<id>.json, JSON.stringify(serializeJob(job)))
persistJob(d, job) == MapSet(d, job.id, serializeJob(job))

\* loadPersistedJobs: every snapshot of JOBS_DIR hydrated into a fresh map
loadPersistedJobs(d) == [id \in DOMAIN d |-> hydrateJob(d[id])]

\* getJob's effect on the map: a record that is only on disk is loaded into it
getJobMap(m, d, id) ==
    IF id \in DOMAIN m THEN m
    ELSE IF id \in DOMAIN d THEN MapSet(m, id, hydrateJob(d[id]))
    ELSE m

\* getJob's result is defined exactly when HasJob holds
HasJob(m, d, id) == id \in DOMAIN getJobMap(m, d, id)
getJob(m, d, id) == getJobMap(m, d, id)[id]

\* The store as a pair [map, disk]; every operation returns the new pair.
Store(m, d) == [map |-> m, disk |-> d]

\* setJob: job.updatedAt = new Date(); jobs.set(job.id, job); persistJob(job)
setJob(st, job, t) ==
    LET j == Spread(job, [updatedAt |-> t])
    IN  Store(MapSet(st.map, j.id, j), persistJob(st.disk, j))

\* updateJob as it was before snapshots were written: the map alone changes.
updateJobUnpersisted(st, id, patch, t) ==
    LET m == getJobMap(st.map, st.disk, id)
    IN  IF id \in DOMAIN m
        THEN Store(MapSet(m, id, Spread(Spread(m[id], patch), [updatedAt |-> t])),
                   st.disk)
        ELSE Store(m, st.disk)

\* updateJob spreading the patch first: the stored value of a field wins.
updateJobExistingWins(st, id, patch, t) ==
    LET m == getJobMap(st.map, st.disk, id)
    IN  IF id \in DOMAIN m
        THEN LET updatedJob == Spread(Spread(patch, m[id]), [updatedAt |-> t])
             IN  Store(MapSet(m, id, updatedJob), persistJob(st.disk, updatedJob))
        ELSE Store(m, st.disk)

\* updateJob that stores the patch as a new record when the id is unknown.
updateJobUpsert(st, id, patch, t) ==
    LET m == getJobMap(st.map, st.disk, id)
        updatedJob == Spread(Spread(IF id \in DOMAIN m THEN m[id] ELSE [id |-> id], patch),
                             [updatedAt |-> t])
    IN  Store(MapSet(m, id, updatedJob), persistJob(st.disk, updatedJob))

\* updateJob: merge the patch into the existing record, refresh updatedAt,
\* store and persist; nothing but getJob's load when the id is unknown.
updateJob(st, id, patch, t) ==
    LET m == getJobMap(st.map, st.disk, id)
    IN  IF id \in DOMAIN m
        THEN LET updatedJob == Spread(Spread(m[id], patch), [updatedAt |-> t])
             IN  Store(MapSet(m, id, updatedJob), persistJob(st.disk, updatedJob))
        ELSE Store(m, st.disk)

\* createJob writing the record as already started.
createJobStarted(st, id, inputPath, target, options, t) ==
    LET job == Spread([id |-> id, status |-> "running", progress |-> 0,
                       inputPath |-> inputPath, target |-> target,
                       createdAt |-> t, updatedAt |-> t],
                      options)
    IN  setJob(st, job, t)

\* createJob: the initial record; preset, bitrate and originalName are
\* present only when the caller passes them.
createJob(st, id, inputPath, target, options, t) ==
    LET job == Spread([id |-> id, status |-> "queued", inputPath |-> inputPath,
                       target |-> target, createdAt |-> t, updatedAt |-> t],
                      options)
    IN  setJob(st, job, t)

\* The age test alone, whatever the status.
OldAnyStatus(m, maxAgeHours, t) ==
    {id \in DOMAIN m : m[id].updatedAt < t - maxAgeHours}

\* cleanupOldJobs(maxAgeHours): done jobs last updated before the cutoff leave
\* the map (jobs.delete) and lose their snapshot (deletePersistedJob).
OldDone(m, maxAgeHours, t) ==
    {id \in DOMAIN m : m[id].status = "done" /\ m[id].updatedAt < t - maxAgeHours}

\* The sweep that forgets the snapshots of the jobs it drops from the map.
cleanupOldJobsMapOnly(st, maxAgeHours, t) ==
    LET gone == {id \in DOMAIN st.map : /\ st.map[id].status = "done"
                                        /\ st.map[id].updatedAt < t - maxAgeHours}
    IN  Store([id \in DOMAIN st.map \ gone |-> st.map[id]], st.disk)

cleanupOldJobs(st, maxAgeHours, t) ==
    LET gone == OldDone(st.map, maxAgeHours, t)
    IN  Store([id \in DOMAIN st.map \ gone |-> st.map[id]],
              [id \in DOMAIN st.disk \ gone |-> st.disk[id]])

\* getAllJobs
getAllJobs(m) == {m[id] : id \in DOMAIN m}


\* ------------------------------------------------------- progress composition
\* Math.floor(s * 0.5): halves go down.
MathFloorHalf(s) == s \div 2

\* Math.round(s * 0.5) for an integer s: halves go towards +infinity.
MathRoundHalf(s) == (s + 1) \div 2

\* youtube-to-mp3, download callback: Math.max(0, Math.min(50, round(p * 0.5)))
fetchProgress(s) == Max(0, Min(50, MathRoundHalf(s)))

\* youtube-to-mp3, conversion callback: Math.max(50, Math.min(100, 50 + round(p * 0.5)))
encodeProgress(s) == Max(50, Min(100, 50 + MathRoundHalf(s)))

\* The rounded report written as it comes.
localProgressUnclamped(p) == p

\* convert, conversion callback: Math.max(0, Math.min(100, Math.round(p)))
localProgress(p) == Max(0, Min(100, p))

\* ---------------------------------------------------------- error classification
Includes(s, sub) ==
    \E i \in 1..(Len(s) - Len(sub) + 1) : SubSeq(s, i, i + Len(sub) - 1) = sub

UpperCase == "ABCDEFGHIJKLMNOPQRSTUVWXYZ"
LowerCase == "abcdefghijklmnopqrstuvwxyz"

LowerChar(c) ==
    LET lower(x) ==
            IF \E i \in 1..26 : SubSeq(UpperCase, i, i) = x
            THEN LET i == CHOOSE k \in 1..26 : SubSeq(UpperCase, k, k) = x
                 IN  SubSeq(LowerCase, i, i)
            ELSE x
    IN  \* the character is looked at once
        CHOOSE r \in {lower(x) : x \in {c}} : TRUE

\* String.prototype.toLowerCase, character by character from position i on
RECURSIVE LowerFrom(_, _)
LowerFrom(s, i) ==
    IF i > Len(s) THEN ""
    ELSE LowerChar(SubSeq(s, i, i)) \o LowerFrom(s, i + 1)

ToLowerCase(s) == LowerFrom(s, 1)

\* The same classification matching the message as it is, case included.
youtubeErrorMessageCaseSensitive(message) ==
    LET m == message
    IN  IF Includes(m, "video unavailable") \/ Includes(m, "private")
        THEN "Video is unavailable, private, or region-locked"
        ELSE IF Includes(m, "age-restricted") \/ Includes(m, "sign in")
        THEN "Video is age-restricted or requires sign-in"
        ELSE IF Includes(m, "live")
        THEN "Live streams are not supported"
        ELSE IF Includes(m, "network") \/ Includes(m, "timeout")
        THEN "Network error or timeout occurred"
        ELSE IF Includes(m, "format not supported")
        THEN "Video format is not supported"
        ELSE IF message # "" THEN message
        ELSE "Conversion failed"

\* The message recorded by the youtube-to-mp3 runner for a caught error; an
\* empty message stands for an error without one.
youtubeErrorMessage(message) ==
    LET errorMessage(m) ==
            IF Includes(m, "video unavailable") \/ Includes(m, "private")
            THEN "Video is unavailable, private, or region-locked"
            ELSE IF Includes(m, "age-restricted") \/ Includes(m, "sign in")
            THEN "Video is age-restricted or requires sign-in"
            ELSE IF Includes(m, "live")
            THEN "Live streams are not supported"
            ELSE IF Includes(m, "network") \/ Includes(m, "timeout")
            THEN "Network error or timeout occurred"
            ELSE IF Includes(m, "format not supported")
            THEN "Video format is not supported"
            ELSE IF message # "" THEN message
            ELSE "Conversion failed"
    IN  \* the lowered message is computed once
        CHOOSE r \in {errorMessage(m) : m \in {ToLowerCase(message)}} : TRUE

\* Messages the collaborators fail with in the runs explored.
FetchFailures == {"Download failed: Private video"}
EncodeFailures == {"FFmpeg audio extraction error: invalid codec"}

\* Messages a collaborator may reject with: those of the error-handling tests
\* and others that name one or several of the matched signals.
ClassifyMessages ==
    { "Video unavailable: private video",
      "This video is age-restricted",
      "Cannot download live streams",
      "Some other error",
      "This is a PRIVATE video",
      "Sign in to confirm your age",
      "Network unreachable",
      "Request timeout",
      "Format not supported",
      "FFmpeg audio extraction error: invalid codec",
      "Private live stream: sign in",
      "Live stream timeout" }

\* The classification of each of these messages, worked out once.
recordedMessage ==
    [message \in FetchFailures \cup EncodeFailures \cup ClassifyMessages |->
        youtubeErrorMessage(message)]

\* ----------------------------------------------------------------------- paths
Decimal(n) == ToISOString(n)

\* createTempPath('youtube-download.webm'): a fresh name in TEMP_DIR
YoutubeTempPath(id) == "temp/yt" \o Decimal(id) \o ".webm"

\* createOutputPath(fileId, targetFormat)
createOutputPath(id, targetFormat) ==
    "temp/" \o Decimal(id) \o "_output." \o targetFormat

UploadPath == "temp/upload.bin"

Targets == {"mp4", "mp3"}
Presets == {"web"}

FileWrite(fs, path, t) == MapSet(fs, path, t)
FileUnlink(fs, path) == MapDelete(fs, path)

\* ----------------------------------------------------------------- the runners
NoRun == [kind |-> "none", pc |-> "none", target |-> "mp3", tempFileExists |-> FALSE,
          outputFileExists |-> FALSE, inputOk |-> FALSE,
          fetchOn |-> FALSE, encodeOn |-> FALSE]

TheStore == Store(jobs, disk)

SetStore(st) == /\ jobs' = st.map
                /\ disk' = st.disk

NoResponse == [kind |-> "none"]
NoPoll == [pc |-> "idle", attempts |-> 0, queries |-> 0]
NoCall == [op |-> "none", read |-> <<>>, arg |-> <<>>, stage |-> "new", last |-> <<>>]
NoCompose == [phase |-> "none", sub |-> 0, out |-> 0]

\* What a step of a runner, of the clock or of the sweeper leaves alone; the
\* response of an earlier request is no longer the one being answered.
Rest == /\ resp' = NoResponse
        /\ UNCHANGED <<production, comp, ExtVars>>

\* POST /api/upload: the uploaded file is written into TEMP_DIR.
Upload ==
    /\ UploadPath \notin DOMAIN files
    /\ files' = FileWrite(files, UploadPath, now)
    /\ UNCHANGED <<now, nextId, jobs, disk, run>>
    /\ Rest

\* youtube-to-mp3 POST up to `await createOutputPath`: createJob for the
\* intermediate download.
YoutubeCreate ==
    /\ nextId + 1 \in JobIds
    /\ LET id == nextId + 1
       IN  /\ nextId' = id
           /\ SetStore(createJob(TheStore, id, YoutubeTempPath(id), "mp3", <<>>, now))
           /\ run' = [run EXCEPT ![id] = [NoRun EXCEPT !.kind = "youtube", !.pc = "created"]]
    /\ UNCHANGED <<now, files>>
    /\ Rest

\* createOutputPath rejects: the outer catch answers 500 and nothing drives
\* the job any further.
YoutubeOutputPathFails(id) ==
    /\ run[id].kind = "youtube" /\ run[id].pc = "created"
    /\ run' = [run EXCEPT ![id].pc = "aborted"]
    /\ UNCHANGED <<now, nextId, jobs, disk, files>>
    /\ Rest

\* createOutputPath resolves: outputPath is recorded, the async block starts,
\* marks the job running at 0 and calls downloadYouTubeAudio.
YoutubeStart(id) ==
    /\ run[id].kind = "youtube" /\ run[id].pc = "created"
    /\ LET s1 == updateJob(TheStore, id, [outputPath |-> createOutputPath(id, "mp3")], now)
           s2 == updateJob(s1, id, [status |-> "running", progress |-> 0], now)
       IN  SetStore(s2)
    /\ run' = [run EXCEPT ![id].pc = "fetch", ![id].fetchOn = TRUE]
    /\ UNCHANGED <<now, nextId, files>>
    /\ Rest

\* The download collaborator reports progress (it is not known to stop doing
\* so once its promise has settled).
FetchCallback(id, s) ==
    /\ run[id].fetchOn
    /\ SetStore(updateJob(TheStore, id, [progress |-> fetchProgress(s)], now))
    /\ UNCHANGED <<now, nextId, files, run>>
    /\ Rest

\* The phase change without the forced 50.
FetchResolveNoForce(id, exists) ==
    /\ run[id].pc = "fetch"
    /\ files' = IF exists THEN FileWrite(files, YoutubeTempPath(id), now) ELSE files
    /\ run' = [run EXCEPT ![id].pc = "encode", ![id].tempFileExists = exists,
                          ![id].inputOk = exists, ![id].encodeOn = TRUE]
    /\ UNCHANGED <<now, nextId, jobs, disk>>
    /\ Rest

\* downloadYouTubeAudio resolves; the file is at the expected path or not.
FetchResolve(id, exists) ==
    /\ run[id].pc = "fetch"
    /\ files' = IF exists THEN FileWrite(files, YoutubeTempPath(id), now) ELSE files
    /\ SetStore(updateJob(TheStore, id, [progress |-> 50], now))
    /\ run' = [run EXCEPT ![id].pc = "encode", ![id].tempFileExists = exists,
                          ![id].inputOk = exists, ![id].encodeOn = TRUE]
    /\ UNCHANGED <<now, nextId>>
    /\ Rest

\* The catch block of the youtube-to-mp3 async block.
YoutubeCatch(id, message, fs) ==
    LET temp == YoutubeTempPath(id)
        out == createOutputPath(id, "mp3")
        fs1 == IF run[id].tempFileExists /\ temp \in DOMAIN fs
               THEN FileUnlink(fs, temp) ELSE fs
        fs2 == IF run[id].outputFileExists /\ out \in DOMAIN fs1
               THEN FileUnlink(fs1, out) ELSE fs1
    IN  /\ files' = fs2
        /\ SetStore(updateJob(TheStore, id,
                              [status |-> "error",
                               error |-> recordedMessage[message],
                               progress |-> 0], now))
        /\ run' = [run EXCEPT ![id].pc = "finished", ![id].tempFileExists = FALSE,
                              ![id].outputFileExists = FALSE, ![id].inputOk = FALSE]

\* downloadYouTubeAudio rejects, leaving a partial file behind or not.
FetchReject(id, message, partial) ==
    /\ run[id].pc = "fetch"
    /\ YoutubeCatch(id, message,
                    IF partial THEN FileWrite(files, YoutubeTempPath(id), now) ELSE files)
    /\ UNCHANGED <<now, nextId>>
    /\ Rest

\* convert POST: createJob, then the async block marks the job running at 0
\* and awaits createOutputPath.
ConvertCreate(target, preset) ==
    /\ nextId + 1 \in JobIds
    /\ UploadPath \in DOMAIN files
    /\ LET id == nextId + 1
           options == IF target = "mp4" THEN [preset |-> preset] ELSE <<>>
           s1 == createJob(TheStore, id, UploadPath, target, options, now)
           s2 == updateJob(s1, id, [status |-> "running", progress |-> 0], now)
       IN  /\ nextId' = id
           /\ SetStore(s2)
           /\ run' = [run EXCEPT ![id] = [NoRun EXCEPT !.kind = "convert", !.pc = "outpath",
                                                  !.target = target]]
    /\ UNCHANGED <<now, files>>
    /\ Rest

\* createOutputPath resolves in the convert runner: outputPath is recorded
\* and the encoder is called.
ConvertStart(id) ==
    /\ run[id].kind = "convert" /\ run[id].pc = "outpath"
    /\ SetStore(updateJob(TheStore, id,
                          [outputPath |-> createOutputPath(id, run[id].target)], now))
    /\ run' = [run EXCEPT ![id].pc = "encode", ![id].encodeOn = TRUE,
                          ![id].inputOk = (UploadPath \in DOMAIN files)]
    /\ UNCHANGED <<now, nextId, files>>
    /\ Rest

\* A catch block that marks the job failed and keeps the message to itself.
ConvertCatchNoMessage(id, message) ==
    /\ SetStore(updateJob(TheStore, id, [status |-> "error"], now))
    /\ run' = [run EXCEPT ![id].pc = "finished", ![id].inputOk = FALSE]

\* The catch block of the convert async block.
ConvertCatch(id, message) ==
    /\ SetStore(updateJob(TheStore, id, [status |-> "error", error |-> message], now))
    /\ run' = [run EXCEPT ![id].pc = "finished", ![id].inputOk = FALSE]

\* createOutputPath rejects in the convert runner.
ConvertOutputPathFails(id) ==
    /\ run[id].kind = "convert" /\ run[id].pc = "outpath"
    /\ ConvertCatch(id, "EACCES: permission denied, mkdir")
    /\ UNCHANGED <<now, nextId, files>>
    /\ Rest

\* A callback that restates the status with each report.
EncodeCallbackWithStatus(id, s) ==
    /\ run[id].encodeOn
    /\ SetStore(updateJob(TheStore, id,
                          [status |-> "running",
                           progress |-> IF run[id].kind = "youtube"
                                        THEN encodeProgress(s)
                                        ELSE localProgress(s)], now))
    /\ UNCHANGED <<now, nextId, files, run>>
    /\ Rest

\* The encoder reports progress (see FetchCallback).
EncodeCallback(id, s) ==
    /\ run[id].encodeOn
    /\ SetStore(updateJob(TheStore, id,
                          [progress |-> IF run[id].kind = "youtube"
                                        THEN encodeProgress(s)
                                        ELSE localProgress(s)], now))
    /\ UNCHANGED <<now, nextId, files, run>>
    /\ Rest

\* The encoder, reading an input that was there when it was called, writes
\* to the artifact.
EncodeWrite(id) ==
    /\ run[id].pc = "encode" /\ run[id].inputOk
    /\ files' = FileWrite(files, createOutputPath(id, run[id].target), now)
    /\ UNCHANGED <<now, nextId, jobs, disk, run>>
    /\ Rest

\* The encoder resolves: the artifact it wrote is complete.  The youtube
\* runner then removes the intermediate download; both mark the job done.
EncodeResolve(id) ==
    /\ run[id].pc = "encode" /\ run[id].inputOk
    /\ createOutputPath(id, run[id].target) \in DOMAIN files
    /\ LET temp == YoutubeTempPath(id)
       IN  files' = IF run[id].kind = "youtube" /\ run[id].tempFileExists
                       /\ temp \in DOMAIN files
                    THEN FileUnlink(files, temp) ELSE files
    /\ SetStore(updateJob(TheStore, id, [status |-> "done", progress |-> 100], now))
    /\ run' = [run EXCEPT ![id].pc = "finished", ![id].tempFileExists = FALSE,
                          ![id].outputFileExists = FALSE, ![id].inputOk = FALSE]
    /\ UNCHANGED <<now, nextId>>
    /\ Rest

\* The encoder rejects; what it wrote of the artifact stays where it is.
EncodeReject(id, message) ==
    /\ run[id].pc = "encode"
    /\ IF run[id].kind = "youtube"
       THEN YoutubeCatch(id, message, files)
       ELSE /\ files' = files
            /\ ConvertCatch(id, message)
    /\ UNCHANGED <<now, nextId>>
    /\ Rest


\* ------------------------------------------------------------------ the sweeper
\* cleanupOldFiles(maxAgeHours): every file of TEMP_DIR whose mtime is before
\* the cutoff is unlinked.
cleanupOldFiles(fs, maxAgeHours, t) ==
    [p \in {q \in DOMAIN fs : ~(fs[q] < t - maxAgeHours)} |-> fs[p]]

\* One run of the scheduler's cleanup(): cleanupOldJobs(24), then
\* cleanupOldFiles(24).  Only a production process schedules it.
SweepPass ==
    /\ production
    /\ SetStore(cleanupOldJobs(TheStore, MaxAgeHours, now))
    /\ files' = cleanupOldFiles(files, MaxAgeHours, now)
    /\ UNCHANGED <<now, nextId, run>>
    /\ Rest

\* ------------------------------------------------------------ result retrieval
ContentType(target) == IF target = "mp4" THEN "video/mp4" ELSE "audio/mpeg"

\* streamOutput without the stat of the artifact.
streamOutputNoStat(m, fs, id) ==
    IF id \notin DOMAIN m
    THEN [code |-> 404, body |-> "Job not found"]
    ELSE IF m[id].status # "done" \/ "outputPath" \notin DOMAIN m[id]
    THEN [code |-> 400, body |-> "File not ready"]
    ELSE [code |-> 200, body |-> "stream", path |-> m[id].outputPath,
          contentType |-> IF m[id].target = "mp4" THEN "video/mp4" ELSE "audio/mpeg",
          filename |-> "converted_" \o ToISOString(id) \o "." \o m[id].target]

\* streamOutput(id), given the store after its own getJob
streamOutput(m, fs, id) ==
    IF id \notin DOMAIN m
    THEN [code |-> 404, body |-> "Job not found"]
    ELSE IF m[id].status # "done" \/ "outputPath" \notin DOMAIN m[id]
    THEN [code |-> 400, body |-> "File not ready"]
    ELSE IF m[id].outputPath \notin DOMAIN fs
    THEN [code |-> 404, body |-> "File not found"]
    ELSE [code |-> 200, body |-> "stream", path |-> m[id].outputPath,
          contentType |-> ContentType(m[id].target),
          filename |-> "converted_" \o Decimal(id) \o "." \o m[id].target]

\* GET /api/jobs/[id]?download=1
downloadResponse(m, fs, id) ==
    IF id \notin DOMAIN m
    THEN [code |-> 404, body |-> "Job not found"]
    ELSE IF m[id].status = "done" /\ "outputPath" \in DOMAIN m[id]
    THEN streamOutput(m, fs, id)
    ELSE IF m[id].status # "done"
    THEN [code |-> 400, body |-> "Job is not yet complete."]
    ELSE [code |-> 404, body |-> "File not available for download"]

\* The status answer that always offers the download.
statusResponseAlwaysUrl(m, id) ==
    IF id \notin DOMAIN m
    THEN [code |-> 404, body |-> "Job not found"]
    ELSE Spread(Spread(Spread([code |-> 200, status |-> m[id].status],
                              IF "progress" \in DOMAIN m[id]
                              THEN [progress |-> m[id].progress] ELSE <<>>),
                       [downloadUrl |-> "/api/jobs/" \o Decimal(id) \o "?download=1"]),
                IF m[id].status = "error" /\ "error" \in DOMAIN m[id]
                THEN [error |-> m[id].error] ELSE <<>>)

\* GET /api/jobs/[id]
statusResponse(m, id) ==
    IF id \notin DOMAIN m
    THEN [code |-> 404, body |-> "Job not found"]
    ELSE Spread(Spread(Spread([code |-> 200, status |-> m[id].status],
                              IF "progress" \in DOMAIN m[id]
                              THEN [progress |-> m[id].progress] ELSE <<>>),
                       IF m[id].status = "done"
                       THEN [downloadUrl |-> "/api/jobs/" \o Decimal(id) \o "?download=1"]
                       ELSE <<>>),
                IF m[id].status = "error" /\ "error" \in DOMAIN m[id]
                THEN [error |-> m[id].error] ELSE <<>>)

\* A retrieval that hands the artifact over once: the file goes with it.
RetrieveOnce(id) ==
    /\ LET m == getJobMap(jobs, disk, id)
           answer == downloadResponse(m, files, id)
       IN  /\ jobs' = m
           /\ resp' = Spread([kind |-> "download", id |-> id], answer)
           /\ files' = IF answer.code = 200 THEN FileUnlink(files, answer.path) ELSE files
    /\ UNCHANGED <<now, production, nextId, disk, run, comp, ExtVars>>

Retrieve(id) ==
    /\ LET m == getJobMap(jobs, disk, id)
       IN  /\ jobs' = m
           /\ resp' = Spread([kind |-> "download", id |-> id],
                             downloadResponse(m, files, id))
    /\ UNCHANGED <<now, production, nextId, disk, files, run, comp, ExtVars>>

StatusQuery(id) ==
    /\ LET m == getJobMap(jobs, disk, id)
       IN  /\ jobs' = m
           /\ resp' = Spread([kind |-> "status", id |-> id], statusResponse(m, id))
    /\ UNCHANGED <<now, production, nextId, disk, files, run, comp, ExtVars>>

\* --------------------------------------------------------------- clock, restart
Tick(limit) ==
    /\ now + TickHours <= limit
    /\ now' = now + TickHours
    /\ UNCHANGED <<nextId, jobs, disk, files, run>>
    /\ Rest

\* The process stops and starts again: the map is rebuilt from the snapshots
\* alone, and the executions and the pass of the old process are gone.
Restart ==
    /\ DOMAIN jobs # {}
    /\ jobs' = loadPersistedJobs(disk)
    /\ run' = [id \in JobIds |-> NoRun]
    /\ resp' = NoResponse
    /\ UNCHANGED <<now, production, nextId, disk, files, comp, ExtVars>>

\* ----------------------------------------------------------------- the service
Init ==
    /\ now = 0
    /\ production \in BOOLEAN
    /\ nextId = 0
    /\ jobs = <<>>
    /\ disk = <<>>
    /\ files = <<>>
    /\ run = [id \in JobIds |-> NoRun]
    /\ resp = NoResponse
    /\ comp = NoCompose
    /\ activeJobs = <<>>
    /\ history = <<>>
    /\ poll = [id \in JobIds |-> NoPoll]
    /\ inflight = [c \in Convs |-> NoCall]
    /\ issued = <<>>

Next ==
    \/ Upload
    \/ YoutubeCreate
    \/ \E id \in JobIds : YoutubeOutputPathFails(id)
    \/ \E id \in JobIds : YoutubeStart(id)
    \/ \E id \in JobIds, s \in SubProgress : FetchCallback(id, s)
    \/ \E id \in JobIds, exists \in BOOLEAN : FetchResolve(id, exists)
    \/ \E id \in JobIds, message \in FetchFailures, partial \in BOOLEAN :
            FetchReject(id, message, partial)
    \/ \E target \in Targets, preset \in Presets : ConvertCreate(target, preset)
    \/ \E id \in JobIds : ConvertStart(id)
    \/ \E id \in JobIds : ConvertOutputPathFails(id)
    \/ \E id \in JobIds, s \in SubProgress : EncodeCallback(id, s)
    \/ \E id \in JobIds : EncodeWrite(id)
    \/ \E id \in JobIds : EncodeResolve(id)
    \/ \E id \in JobIds, message \in EncodeFailures : EncodeReject(id, message)
    \/ SweepPass
    \/ \E id \in JobIds : Retrieve(id)
    \/ \E id \in JobIds : StatusQuery(id)
    \/ Tick(MaxTime)
    \/ Restart

Spec == Init /\ [][Next]_vars

\* ------------------------------- the runners when every awaited call settles
NextLive ==
    \/ Upload
    \/ YoutubeCreate
    \/ \E id \in JobIds : YoutubeOutputPathFails(id)
    \/ \E id \in JobIds : YoutubeStart(id)
    \/ \E id \in JobIds, s \in SubProgress : FetchCallback(id, s)
    \/ \E id \in JobIds, exists \in BOOLEAN : FetchResolve(id, exists)
    \/ \E id \in JobIds, message \in FetchFailures, partial \in BOOLEAN :
            FetchReject(id, message, partial)
    \/ \E target \in Targets, preset \in Presets : ConvertCreate(target, preset)
    \/ \E id \in JobIds : ConvertStart(id)
    \/ \E id \in JobIds : ConvertOutputPathFails(id)
    \/ \E id \in JobIds, s \in SubProgress : EncodeCallback(id, s)
    \/ \E id \in JobIds : EncodeWrite(id)
    \/ \E id \in JobIds : EncodeResolve(id)
    \/ \E id \in JobIds, message \in EncodeFailures : EncodeReject(id, message)

\* createOutputPath, the download and the encoder each resolve or reject in
\* the end; the process is not restarted.
SpecLive ==
    /\ Init
    /\ [][NextLive]_vars
    /\ \A id \in JobIds :
          /\ WF_vars(YoutubeStart(id) \/ YoutubeOutputPathFails(id))
          /\ WF_vars(ConvertStart(id) \/ ConvertOutputPathFails(id))
          /\ WF_vars(\/ \E exists \in BOOLEAN : FetchResolve(id, exists)
                     \/ \E message \in FetchFailures, partial \in BOOLEAN :
                           FetchReject(id, message, partial))
          /\ WF_vars(\/ EncodeResolve(id)
                     \/ \E message \in EncodeFailures : EncodeReject(id, message))

\* ------------------------------------------- the store called directly
\* Patches a caller of updateJob passes.
Patches ==
    { [progress |-> 25],
      [status |-> "running", progress |-> 0],
      [status |-> "done", progress |-> 100],
      [status |-> "error", error |-> "Conversion failed"],
      [outputPath |-> "temp/out.mp3"] }

\* Arguments a caller of createJob passes: target and the optional ones.
StoreArgs ==
    { <<"mp3", <<>>>>,
      <<"mp4", [preset |-> "mobile", bitrate |-> 128]>> }

\* createJob called directly; the caller holds the record it returns.
StoreCreate(target, options) ==
    /\ nextId + 1 \in StoreIds
    /\ LET id == nextId + 1
           st == createJob(TheStore, id, "temp/in.webm", target, options, now)
       IN  /\ nextId' = id
           /\ SetStore(st)
           /\ resp' = [kind |-> "create", job |-> st.map[id],
                       args |-> <<"temp/in.webm", target, options>>]
    /\ UNCHANGED <<now, production, files, run, comp, ExtVars>>

\* updateJob called directly; it returns nothing.
StoreUpdate(id, patch) ==
    /\ SetStore(updateJob(TheStore, id, patch, now))
    /\ resp' = [kind |-> "update", id |-> id]
    /\ UNCHANGED <<now, production, nextId, files, run, comp, ExtVars>>

NextStore ==
    \/ \E a \in StoreArgs : StoreCreate(a[1], a[2])
    \/ \E id \in StoreIds, patch \in Patches : StoreUpdate(id, patch)
    \/ Tick(MaxStoreTime)

SpecStore == Init /\ [][NextStore]_vars

\* ------------------------------- the store when a snapshot cannot be written
\* createJob while writeFileSync throws inside persistJob: the error is
\* caught and logged there, the map has the record, the disk is as it was.
StoreCreateDiskFails(target, options) ==
    /\ nextId + 1 \in StoreIds
    /\ LET id == nextId + 1
           st == createJob(TheStore, id, "temp/in.webm", target, options, now)
       IN  /\ nextId' = id
           /\ jobs' = st.map
           /\ disk' = disk
           /\ resp' = [kind |-> "create", job |-> st.map[id],
                       args |-> <<"temp/in.webm", target, options>>]
    /\ UNCHANGED <<now, production, files, run, comp, ExtVars>>

\* An update whose caller gets the write error: persistJob without its catch.
StoreUpdateDiskFailsThrows(id, patch) ==
    /\ jobs' = updateJob(TheStore, id, patch, now).map
    /\ disk' = disk
    /\ resp' = [kind |-> "throw", id |-> id]
    /\ UNCHANGED <<now, production, nextId, files, run, comp, ExtVars>>

\* updateJob while writeFileSync throws inside persistJob.
StoreUpdateDiskFails(id, patch) ==
    /\ jobs' = updateJob(TheStore, id, patch, now).map
    /\ disk' = disk
    /\ resp' = [kind |-> "update", id |-> id]
    /\ UNCHANGED <<now, production, nextId, files, run, comp, ExtVars>>

\* One job is enough here: its snapshot may be any earlier state of its record.
NextPersist ==
    \/ nextId = 0 /\ StoreCreate("mp3", <<>>)
    \/ nextId = 0 /\ StoreCreateDiskFails("mp3", <<>>)
    \/ \E id \in StoreIds, patch \in Patches : StoreUpdate(id, patch)
    \/ \E id \in StoreIds, patch \in Patches : StoreUpdateDiskFails(id, patch)
    \/ Tick(MaxStoreTime)

SpecPersist == Init /\ [][NextPersist]_vars

\* ------------------------------ updates of one job and the polls that read it
\* issued: the record createJob stored, then the patch of every updateJob call
\* made for the job, each with the time of the call.
\* createJob for the job the callbacks and the polls are about.
IssueCreate(target, options) ==
    /\ nextId = 0
    /\ LET id == nextId + 1
           st == createJob(TheStore, id, "temp/in.webm", target, options, now)
       IN  /\ nextId' = id
           /\ SetStore(st)
           /\ issued' = <<[patch |-> st.map[id], at |-> now]>>
    /\ UNCHANGED <<now, production, files, run, resp, comp,
                   activeJobs, history, poll, inflight>>

\* An update that merges its patch into the record as it was created
\* instead of the record as it is.
IssueUpdateStale(id, patch) ==
    /\ Len(issued) \in 1..(MaxIssued - 1)
    /\ LET updatedJob == Spread(Spread(issued[1].patch, patch), [updatedAt |-> now])
       IN  SetStore(Store(MapSet(jobs, id, updatedJob), persistJob(disk, updatedJob)))
    /\ issued' = Append(issued, [patch |-> patch, at |-> now])
    /\ UNCHANGED <<now, production, nextId, files, run, resp, comp,
                   activeJobs, history, poll, inflight>>

\* A progress callback or the runner calls updateJob: one synchronous call,
\* no await between its getJob and its jobs.set.  A response already built
\* for a poll is on its way to the client meanwhile.
IssueUpdate(id, patch) ==
    /\ Len(issued) \in 1..(MaxIssued - 1)
    /\ SetStore(updateJob(TheStore, id, patch, now))
    /\ issued' = Append(issued, [patch |-> patch, at |-> now])
    /\ UNCHANGED <<now, production, nextId, files, run, resp, comp,
                   activeJobs, history, poll, inflight>>

\* A status poll reads the record: getJob, synchronous as well.
StatusRead(id) ==
    /\ HasJob(jobs, disk, id)
    /\ jobs' = getJobMap(jobs, disk, id)
    /\ resp' = [kind |-> "read", id |-> id, job |-> getJob(jobs, disk, id)]
    /\ UNCHANGED <<now, production, nextId, disk, files, run, comp, ExtVars>>

NextInterleave ==
    \/ \E a \in StoreArgs : IssueCreate(a[1], a[2])
    \/ \E patch \in Patches : IssueUpdate(1, patch)
    \/ StatusRead(1)
    \/ Tick(MaxStoreTime)

SpecInterleave == Init /\ [][NextInterleave]_vars

\* ------------------------------------------ the failures of the collaborators
NextClassify ==
    \/ Upload
    \/ YoutubeCreate
    \/ \E id \in JobIds : YoutubeStart(id)
    \/ \E id \in JobIds, exists \in BOOLEAN : FetchResolve(id, exists)
    \/ \E id \in JobIds, message \in ClassifyMessages, partial \in BOOLEAN :
            FetchReject(id, message, partial)
    \/ \E target \in Targets, preset \in Presets : ConvertCreate(target, preset)
    \/ \E id \in JobIds : ConvertStart(id)
    \/ \E id \in JobIds : EncodeWrite(id)
    \/ \E id \in JobIds, message \in ClassifyMessages : EncodeReject(id, message)

SpecClassify == Init /\ [][NextClassify]_vars

\* ------------------------------------------------- the browser extension
ServerVars == <<now, production, nextId, jobs, disk, files, run, resp, comp>>

\* jobs.findIndex(j => j.jobId === jobId), counted from 1; 0 when there is none
findIndex(list, jobId) ==
    IF \E i \in 1..Len(list) : list[i].jobId = jobId
    THEN CHOOSE i \in 1..Len(list) :
            /\ list[i].jobId = jobId
            /\ \A k \in 1..(i - 1) : list[k].jobId # jobId
    ELSE 0

\* The list each storage call writes back, given the list it read.
addActiveJob(list, job) == Append(list, job)

updateActiveJob(list, jobId, updates) ==
    LET index == findIndex(list, jobId)
    IN  [i \in 1..Len(list) |-> IF i = index THEN Spread(list[i], updates) ELSE list[i]]

removeActiveJob(list, jobId) ==
    LET Keep(j) == j.jobId # jobId
    IN  SelectSeq(list, Keep)

\* addToHistory putting the new item after the ones already there.
addToHistoryAppend(list, item) ==
    SubSeq(list \o <<item>>, 1, Min(HistoryLimit, Len(list) + 1))

\* addToHistory: the new item first, the last 50 kept.
addToHistory(list, item) ==
    SubSeq(<<item>> \o list, 1, Min(HistoryLimit, Len(list) + 1))

\* handleJobError: the local record is marked failed.
handleJobError(list, jobId, error) ==
    updateActiveJob(list, jobId, [status |-> "error", error |-> error])

\* handleConversion once startConversion has answered: the job is listed
\* locally as queued and pollJobStatus starts.
HandleConversion(id) ==
    /\ id <= nextId
    /\ poll[id].pc = "idle"
    /\ activeJobs' = addActiveJob(activeJobs, [jobId |-> id, status |-> "queued",
                                                progress |-> 0])
    /\ poll' = [poll EXCEPT ![id].pc = "waiting"]
    /\ UNCHANGED <<ServerVars, history, inflight, issued>>

\* poll() within the allowed attempts: the query and what follows from it.
PollQuery(id, networkOk) ==
    /\ poll[id].pc = "waiting"
    /\ LET m == getJobMap(jobs, disk, id)
           status == statusResponse(m, id)
           local == updateActiveJob(activeJobs, id,
                       Spread([status |-> status.status,
                               progress |-> IF "progress" \in DOMAIN status
                                            THEN status.progress ELSE 0],
                              IF "error" \in DOMAIN status
                              THEN [error |-> status.error] ELSE <<>>))
       IN  /\ jobs' = m
           /\ resp' = Spread([kind |-> "status", id |-> id], status)
           /\ IF ~networkOk \/ status.code # 200
              THEN /\ activeJobs' = handleJobError(activeJobs, id,
                                                  "Failed to get job status")
                   /\ history' = history
                   /\ poll' = [poll EXCEPT ![id].pc = "stopped",
                                           ![id].attempts = @ + 1,
                                           ![id].queries = @ + 1]
              ELSE /\ activeJobs' = IF status.status = "done"
                                    THEN removeActiveJob(local, id)
                                    ELSE IF status.status = "error"
                                    THEN handleJobError(local, id, status.error)
                                    ELSE local
                   /\ history' = IF status.status = "done"
                                 THEN addToHistory(history, [jobId |-> id,
                                                             downloadedAt |-> now])
                                 ELSE history
                   /\ poll' = [poll EXCEPT
                                 ![id].pc = IF status.status \in {"done", "error"}
                                            THEN "stopped" ELSE "waiting",
                                 ![id].attempts = @ + 1,
                                 ![id].queries = @ + 1]
    /\ UNCHANGED <<now, production, nextId, disk, files, run, comp, inflight, issued>>

\* poll() that goes on asking whatever the number of attempts.
PollNoLimit(id, networkOk) == PollQuery(id, networkOk)

\* One run of poll(): attempts++, give up past MAX_POLL_ATTEMPTS, otherwise
\* ask the server (GET /api/jobs/[id], answered as in statusResponse), copy
\* the answer into the local record and stop on done, on error and on a
\* failed query, or set the timer for the next run.
Poll(id, networkOk) ==
    IF poll[id].attempts + 1 > MAX_POLL_ATTEMPTS
    THEN /\ poll[id].pc = "waiting"
         /\ activeJobs' = handleJobError(activeJobs, id,
                                        "Conversion timeout - please try again")
         /\ poll' = [poll EXCEPT ![id].pc = "stopped", ![id].attempts = @ + 1]
         /\ UNCHANGED <<ServerVars, history, inflight, issued>>
    ELSE PollQuery(id, networkOk)

\* The server runs one remote-source job while the extension polls it.
NextPoll ==
    \/ YoutubeCreate
    \/ \E id \in JobIds : YoutubeStart(id)
    \/ \E id \in JobIds : FetchResolve(id, TRUE)
    \/ \E id \in JobIds : EncodeWrite(id)
    \/ \E id \in JobIds : EncodeResolve(id)
    \/ \E id \in JobIds, message \in EncodeFailures : EncodeReject(id, message)
    \/ \E id \in JobIds : HandleConversion(id)
    \/ \E id \in JobIds, networkOk \in BOOLEAN : Poll(id, networkOk)

\* The timer set by poll() fires: a pending run of poll() does run.
SpecPoll ==
    /\ Init
    /\ [][NextPoll]_vars
    /\ \A id \in JobIds : WF_vars(\E networkOk \in BOOLEAN : Poll(id, networkOk))

\* The history on its own: downloads are numbered in the order they are added.
AddToHistory ==
    LET n == IF history = <<>> THEN 1 ELSE history[1].jobId + 1
    IN  /\ n <= MaxAdds
        /\ history' = addToHistory(history, [jobId |-> n, downloadedAt |-> now])
        /\ UNCHANGED <<ServerVars, activeJobs, poll, inflight, issued>>

NextHistory == AddToHistory

SpecHistory == Init /\ [][NextHistory]_vars

\* ------------------------------- storage calls of conversions side by side
\* inflight[c]: the storage call conversion c is inside (op, the list it
\* read, its argument), how far the conversion's completed calls have
\* brought it (stage) and the updates of its last completed update call.
\* What the poll of a conversion passes to updateActiveJob.
ActiveUpdates ==
    { [status |-> "running", progress |-> 50],
      [status |-> "done", progress |-> 100] }

\* The first half of a storage call: `await getActiveJobs()`.
StorageRead(c, op, arg) ==
    /\ inflight[c].op = "none"
    /\ inflight' = [inflight EXCEPT ![c].op = op, ![c].read = activeJobs,
                                    ![c].arg = arg]
    /\ UNCHANGED <<ServerVars, activeJobs, history, poll, issued>>

\* handleConversion calls addActiveJob(jobState).
AddRead(c) ==
    /\ inflight[c].stage = "new"
    /\ StorageRead(c, "add", [jobId |-> c, status |-> "queued", progress |-> 0])

\* pollJobStatus calls updateActiveJob(jobId, {status, progress, ...}).
UpdateRead(c, updates) ==
    /\ inflight[c].stage = "active"
    /\ StorageRead(c, "update", updates)

\* handleJobComplete calls removeActiveJob(jobId).
RemoveRead(c) ==
    /\ inflight[c].stage = "active"
    /\ StorageRead(c, "remove", <<>>)

\* The second half: `await setActiveJobs(...)` with the list computed from
\* the one read; updateActiveJob writes nothing when the id is not in it.
\* The call has then completed.
StorageWrite(c) ==
    LET call == inflight[c]
    IN  /\ call.op # "none"
        /\ activeJobs' =
              CASE call.op = "add" -> addActiveJob(call.read, call.arg)
                [] call.op = "update" ->
                     IF findIndex(call.read, c) # 0
                     THEN updateActiveJob(call.read, c, call.arg)
                     ELSE activeJobs
                [] call.op = "remove" -> removeActiveJob(call.read, c)
        /\ inflight' = [inflight EXCEPT
              ![c] = [op |-> "none", read |-> <<>>, arg |-> <<>>,
                      stage |-> CASE call.op = "add" -> "active"
                                  [] call.op = "update" -> call.stage
                                  [] call.op = "remove" -> "gone",
                      last |-> IF call.op = "update" THEN call.arg ELSE call.last]]
        /\ UNCHANGED <<ServerVars, history, poll, issued>>

NextActive ==
    \/ \E c \in Convs : AddRead(c)
    \/ \E c \in Convs, updates \in ActiveUpdates : UpdateRead(c, updates)
    \/ \E c \in Convs : RemoveRead(c)
    \/ \E c \in Convs : StorageWrite(c)

SpecActive == Init /\ [][NextActive]_vars

\* --------------------------------------- the progress mapping on its own
ComposeRange == (0 - ComposeBelow)..ComposeHi

ComposeFetch(s) ==
    /\ comp' = [phase |-> "fetch", sub |-> s, out |-> fetchProgress(s)]
    /\ UNCHANGED <<now, production, nextId, jobs, disk, files, run, resp, ExtVars>>

ComposeEncode(s) ==
    /\ comp' = [phase |-> "encode", sub |-> s, out |-> encodeProgress(s)]
    /\ UNCHANGED <<now, production, nextId, jobs, disk, files, run, resp, ExtVars>>

NextCompose ==
    \/ \E s \in ComposeRange : ComposeFetch(s)
    \/ \E s \in ComposeRange : ComposeEncode(s)

SpecCompose == Init /\ [][NextCompose]_vars


\* ===================================================================== claims
Terminal == {"done", "error"}

\* The retention rule as the specification words it: older than the window.
OlderThanWindow(job) == now - job.updatedAt > MaxAgeHours

\* C1: once a job is done or error, no call of the store's update changes its
\* status, whatever the patch.
C1_TerminalStatusFrozen ==
    [][\A id \in DOMAIN jobs :
          jobs[id].status \in Terminal
          => (id \in DOMAIN jobs' /\ jobs'[id].status = jobs[id].status)]_vars

\* C2: under either runner a job's status only moves queued -> running ->
\* done | error, running repeating on progress updates; nothing leaves done or
\* error and running never falls back to queued.  A record appears as queued,
\* or as running when the route creates and starts it in one turn.
StatusSteps ==
    { <<"queued", "queued">>, <<"queued", "running">>, <<"running", "running">>,
      <<"running", "done">>, <<"running", "error">>,
      <<"done", "done">>, <<"error", "error">> }

C2_StatusLifecycle ==
    [][\A id \in JobIds :
          /\ (id \in DOMAIN jobs /\ id \in DOMAIN jobs')
                => <<jobs[id].status, jobs'[id].status>> \in StatusSteps
          /\ (id \notin DOMAIN jobs /\ id \in DOMAIN jobs')
                => jobs'[id].status \in {"queued", "running"}]_vars

C2_Witness ==
    \E id \in DOMAIN jobs :
        /\ run[id].kind = "youtube" /\ run[id].pc = "finished"
        /\ jobs[id].status = "done"

\* C3: for a remote-source job whose collaborators report values of 0..100,
\* the fetch ones in any order, every progress value written while the job is
\* running is at least the one before it, and the value written with done is
\* 100.
InRange == {s \in SubProgress : 0 <= s /\ s <= 100}

C3_ProgressNonDecreasing ==
    [][\A id \in JobIds :
          /\ \A s \in InRange :
                ( /\ id \in DOMAIN jobs /\ jobs[id].status = "running"
                  /\ run[id].kind = "youtube"
                  /\ \/ run[id].pc = "fetch" /\ FetchCallback(id, s)
                     \/ run[id].pc = "encode" /\ EncodeCallback(id, s) )
                => jobs'[id].progress >= jobs[id].progress
          /\ ( /\ id \in DOMAIN jobs /\ jobs[id].status = "running"
               /\ run[id].kind = "youtube"
               /\ id \in DOMAIN jobs' /\ jobs'[id].status = "done" )
                => jobs'[id].progress = 100]_vars

\* C4: for every integer s the fetch mapping gives clamp(round(s/2), 0, 50)
\* and the encode mapping clamp(50 + round(s/2), 50, 100), halves rounding
\* up; both equal clamping s to 0..100 first and scaling afterwards.
Clamp(x, lo, hi) == IF x < lo THEN lo ELSE IF x > hi THEN hi ELSE x
HalfRoundedUp(n) == IF n % 2 = 0 THEN n \div 2 ELSE (n \div 2) + 1

ComposeExamples ==
    { <<"fetch", 0, 0>>, <<"fetch", 50, 25>>, <<"fetch", 100, 50>>,
      <<"fetch", -10, 0>>, <<"fetch", 150, 50>>,
      <<"encode", 0, 50>>, <<"encode", 50, 75>>, <<"encode", 100, 100>>,
      <<"encode", -10, 50>>, <<"encode", 150, 100>> }

C4_ComposeMapping ==
    /\ comp.phase = "fetch"
        => /\ comp.out = Clamp(HalfRoundedUp(comp.sub), 0, 50)
           /\ comp.out = HalfRoundedUp(Clamp(comp.sub, 0, 100))
    /\ comp.phase = "encode"
        => /\ comp.out = Clamp(50 + HalfRoundedUp(comp.sub), 50, 100)
           /\ comp.out = 50 + HalfRoundedUp(Clamp(comp.sub, 0, 100))
    /\ \A e \in ComposeExamples :
          (comp.phase = e[1] /\ comp.sub = e[2]) => comp.out = e[3]

C4_Witness == comp.phase = "fetch" /\ comp.sub = 5 /\ comp.out = 3

\* C5: retrieval streams only when the job exists, is done and its output
\* file is on disk; it answers NotReady (400) for every existing job that is
\* queued, running or error and NotFound (404) for an id without a record.
C5_DownloadGating ==
    resp.kind = "download"
    => /\ resp.code = 200
            => /\ resp.id \in DOMAIN jobs
               /\ jobs[resp.id].status = "done"
               /\ "outputPath" \in DOMAIN jobs[resp.id]
               /\ jobs[resp.id].outputPath \in DOMAIN files
       /\ (resp.id \in DOMAIN jobs /\ jobs[resp.id].status # "done")
            => resp.code = 400
       /\ (resp.id \notin DOMAIN jobs /\ resp.id \notin DOMAIN disk)
            => (resp.code = 404 /\ resp.body = "Job not found")

C5_Witness ==
    /\ resp.kind = "download" /\ resp.code = 200
    /\ jobs[resp.id].status = "done"

\* C6: for a done job whose outputPath is unset or whose output file is
\* missing, retrieval answers NotReady (400), not NotFound and not a stream.
C6_DoneWithoutFileNotReady ==
    ( /\ resp.kind = "download"
      /\ resp.id \in DOMAIN jobs
      /\ jobs[resp.id].status = "done"
      /\ \/ "outputPath" \notin DOMAIN jobs[resp.id]
         \/ jobs[resp.id].outputPath \notin DOMAIN files )
    => resp.code = 400

C8_SweepSparesTheRest ==
    [][SweepPass
       => \A id \in DOMAIN jobs :
             (jobs[id].status # "done" \/ ~OlderThanWindow(jobs[id]))
             => /\ id \in DOMAIN jobs' /\ jobs'[id] = jobs[id]
                /\ id \in DOMAIN disk' /\ disk'[id] = disk[id]]_vars

\* An old error job is still there although a pass has reclaimed its upload.
C8_Witness ==
    \E id \in DOMAIN jobs :
        /\ jobs[id].status = "error" /\ OlderThanWindow(jobs[id])
        /\ jobs[id].inputPath = UploadPath
        /\ UploadPath \notin DOMAIN files

C10_DoneMeansHundred ==
    \A id \in DOMAIN jobs :
        jobs[id].status = "done"
        => ("progress" \in DOMAIN jobs[id] /\ jobs[id].progress = 100)

\* C11: outputPath is assigned at most once, only as the encode sub-phase
\* begins (the job running and, for a remote-source job, the fetch over), and
\* is neither changed nor cleared afterwards.
C11_OutputPathSetOnceAtEncode ==
    [][\A id \in JobIds :
          (id \in DOMAIN jobs /\ id \in DOMAIN jobs')
          => /\ "outputPath" \in DOMAIN jobs[id]
                  => /\ "outputPath" \in DOMAIN jobs'[id]
                     /\ jobs'[id].outputPath = jobs[id].outputPath
             /\ ("outputPath" \notin DOMAIN jobs[id] /\ "outputPath" \in DOMAIN jobs'[id])
                  => /\ jobs'[id].status = "running"
                     /\ run'[id].pc = "encode"]_vars

\* C12: when the fetch or the encode of a remote-source job fails, the
\* intermediate download and the partly written artifact that were on disk at
\* the failure are gone once the job is error.
C12_FailureRemovesArtifacts ==
    [][\A id \in JobIds :
          ( /\ run[id].kind = "youtube"
            /\ id \in DOMAIN jobs /\ jobs[id].status = "running"
            /\ id \in DOMAIN jobs' /\ jobs'[id].status = "error" )
          => \A p \in {YoutubeTempPath(id), createOutputPath(id, "mp3")} :
                p \in DOMAIN files => p \notin DOMAIN files']_vars

\* C13: when a job becomes done, remote-source or local-input, its input
\* artifact is no longer on disk.
C13_DoneInputRemoved ==
    [][\A id \in JobIds :
          ( /\ id \in DOMAIN jobs /\ jobs[id].status = "running"
            /\ id \in DOMAIN jobs' /\ jobs'[id].status = "done" )
          => jobs'[id].inputPath \notin DOMAIN files']_vars

\* C14: under either runner a job has an error field exactly when its status
\* is error, and the message is not empty.
C14_ErrorIffStatusError ==
    \A id \in DOMAIN jobs :
        /\ ("error" \in DOMAIN jobs[id]) <=> (jobs[id].status = "error")
        /\ "error" \in DOMAIN jobs[id] => Len(jobs[id].error) > 0

C14_Witness ==
    \E id \in DOMAIN jobs :
        /\ run[id].kind = "convert" /\ run[id].pc = "finished"
        /\ jobs[id].status = "error"
        /\ jobs[id].error = "FFmpeg audio extraction error: invalid codec"

\* C15: the message recorded for a failed job is a function of the
\* collaborator's message, matched without regard to case, the first rule that
\* matches winning: 'video unavailable' or 'private', then 'age-restricted' or
\* 'sign in', then 'live', then 'network' or 'timeout'; the remote-source
\* runner has a fifth rule, 'format not supported', before it records the
\* message as it is, and the local runner records every message as it is.
Rules ==
    << <<{"video unavailable", "private"},
         "Video is unavailable, private, or region-locked">>,
       <<{"age-restricted", "sign in"},
         "Video is age-restricted or requires sign-in">>,
       <<{"live"}, "Live streams are not supported">>,
       <<{"network", "timeout"}, "Network error or timeout occurred">>,
       <<{"format not supported"}, "Video format is not supported">> >>

FirstMatch(rules, message) ==
    LET hits == {i \in 1..Len(rules) :
                    \E k \in rules[i][1] : Includes(ToLowerCase(message), k)}
    IN  IF hits = {} THEN message
        ELSE rules[CHOOSE i \in hits : \A j \in hits : i <= j][2]

Fails(id, message) ==
    \/ \E partial \in BOOLEAN : FetchReject(id, message, partial)
    \/ EncodeReject(id, message)

C15_ErrorClassification ==
    [][\A id \in JobIds, message \in ClassifyMessages :
          Fails(id, message)
          => jobs'[id].error = IF run[id].kind = "youtube"
                               THEN FirstMatch(Rules, message)
                               ELSE message]_vars

\* The four rules of the taxonomy and nothing else, for every failed job.
C15_FourRulesThenVerbatim ==
    [][\A id \in JobIds, message \in ClassifyMessages :
          Fails(id, message)
          => jobs'[id].error = FirstMatch(SubSeq(Rules, 1, 4), message)]_vars

\* A remote-source job failed with a message that names a live stream and
\* none of the earlier signals.
C15_Witness ==
    \E id \in DOMAIN jobs :
        /\ run[id].kind = "youtube" /\ run[id].pc = "finished"
        /\ jobs[id].status = "error"
        /\ jobs[id].error = "Live streams are not supported"

\* C16: update(id, patch) on an existing job changes the fields of the patch
\* and updatedAt and nothing else: the job's other fields, and the records and
\* the snapshots of the other jobs, are as before.
C16_UpdateFrame ==
    [][\A id \in StoreIds, patch \in Patches :
          (HasJob(jobs, disk, id) /\ StoreUpdate(id, patch))
          => /\ DOMAIN jobs' = DOMAIN jobs
             /\ \A other \in DOMAIN jobs \ {id} :
                   jobs'[other] = jobs[other] /\ disk'[other] = disk[other]
             /\ DOMAIN jobs'[id] = DOMAIN jobs[id] \cup DOMAIN patch
             /\ \A f \in DOMAIN patch : jobs'[id][f] = patch[f]
             /\ jobs'[id].updatedAt = now
             /\ \A f \in DOMAIN jobs[id] \ (DOMAIN patch \cup {"updatedAt"}) :
                   jobs'[id][f] = jobs[id][f]]_vars

\* The second job was updated after the clock moved, next to a first one that
\* carries every optional field.
C16_Witness ==
    /\ resp = [kind |-> "update", id |-> 2]
    /\ DOMAIN jobs = {1, 2}
    /\ jobs[2].updatedAt > jobs[2].createdAt
    /\ {"preset", "bitrate", "outputPath", "progress"} \subseteq DOMAIN jobs[1]

\* C17: update(id, patch) for an id with neither a record nor a snapshot
\* returns and changes nothing: no record, no snapshot, get(id) still absent.
C17_UnknownIdNoOp ==
    [][\A id \in StoreIds, patch \in Patches :
          (~HasJob(jobs, disk, id) /\ StoreUpdate(id, patch))
          => /\ jobs' = jobs
             /\ disk' = disk
             /\ ~HasJob(jobs', disk', id)]_vars

C17_Witness ==
    /\ resp = [kind |-> "update", id |-> 2]
    /\ nextId = 1
    /\ ~HasJob(jobs, disk, 2)
    /\ HasJob(jobs, disk, 1)

\* C19: the record create returns is queued, has no progress, outputPath or
\* error, carries inputPath, target, preset and bitrate as they were passed,
\* and is the record get(id) returns right after.
C19_CreateResult ==
    resp.kind = "create"
    => LET job == resp.job
           options == resp.args[3]
       IN  /\ job.status = "queued"
           /\ DOMAIN job \cap {"progress", "outputPath", "error"} = {}
           /\ job.inputPath = resp.args[1]
           /\ job.target = resp.args[2]
           /\ \A f \in {"preset", "bitrate"} :
                 /\ (f \in DOMAIN job) <=> (f \in DOMAIN options)
                 /\ f \in DOMAIN job => job[f] = options[f]
           /\ HasJob(jobs, disk, job.id)
           /\ getJob(jobs, disk, job.id) = job

C19_Witness ==
    /\ resp.kind = "create"
    /\ resp.job.id = 2
    /\ {"bitrate", "preset"} \subseteq DOMAIN resp.job
    /\ resp.job.bitrate = 128 /\ resp.job.preset = "mobile"
    /\ jobs[1].status = "done"

\* C20: the answer to a status query for a job carries downloadUrl exactly
\* when the job is done and an error message only when it is error, and
\* reports the job's status and progress as they are.
C20_StatusResponse ==
    (resp.kind = "status" /\ resp.id \in DOMAIN jobs)
    => LET job == jobs[resp.id]
       IN  /\ resp.code = 200
           /\ ("downloadUrl" \in DOMAIN resp) <=> (job.status = "done")
           /\ "error" \in DOMAIN resp
                 => (job.status = "error" /\ resp.error = job.error)
           /\ resp.status = job.status
           /\ ("progress" \in DOMAIN resp) <=> ("progress" \in DOMAIN job)
           /\ "progress" \in DOMAIN resp => resp.progress = job.progress

C20_Witness ==
    /\ resp.kind = "status"
    /\ "downloadUrl" \in DOMAIN resp
    /\ resp.status = "done" /\ resp.progress = 100

\* C21: a retrieval changes neither the job's record nor its snapshot nor any
\* file, so for a done job whose file is there it answers with the stream of
\* that file and its content type, and the next retrieval would answer the
\* same.
C21_RetrievalNoSideEffect ==
    [][\A id \in JobIds :
          Retrieve(id)
          => /\ files' = files
             /\ disk' = disk
             /\ HasJob(jobs, disk, id)
                   => /\ HasJob(jobs', disk', id)
                      /\ getJob(jobs', disk', id) = getJob(jobs, disk, id)
             /\ ( /\ HasJob(jobs, disk, id)
                  /\ getJob(jobs, disk, id).status = "done"
                  /\ "outputPath" \in DOMAIN getJob(jobs, disk, id)
                  /\ getJob(jobs, disk, id).outputPath \in DOMAIN files )
                   => /\ resp'.code = 200
                      /\ resp'.path = getJob(jobs, disk, id).outputPath
                      /\ resp'.contentType = ContentType(getJob(jobs, disk, id).target)
             /\ resp' = Spread([kind |-> "download", id |-> id],
                               downloadResponse(getJobMap(jobs', disk', id), files', id))]_vars

\* A video artifact retrieved some time after the job was done.
C21_Witness ==
    /\ resp.kind = "download" /\ resp.code = 200
    /\ resp.contentType = "video/mp4"
    /\ resp.path \in DOMAIN files
    /\ now > jobs[resp.id].updatedAt

\* C22: when the snapshot cannot be written, create and update still return
\* to their caller and the record in memory has the update; the next update
\* of that job whose write succeeds leaves a snapshot of the whole record.
C22_PersistFailureDegrades ==
    [][/\ StoreCreateDiskFails("mp3", <<>>)
           => /\ resp'.kind = "create"
              /\ HasJob(jobs', disk', resp'.job.id)
              /\ getJob(jobs', disk', resp'.job.id) = resp'.job
       /\ \A id \in StoreIds, patch \in Patches :
           /\ (HasJob(jobs, disk, id) /\ StoreUpdateDiskFails(id, patch))
                 => /\ resp'.kind = "update"
                    /\ getJob(jobs', disk', id)
                          = Spread(Spread(getJob(jobs, disk, id), patch),
                                   [updatedAt |-> now])
           /\ (HasJob(jobs, disk, id) /\ StoreUpdate(id, patch))
                 => /\ id \in DOMAIN disk'
                    /\ hydrateJob(disk'[id]) = getJob(jobs', disk', id)
                    /\ \A f \in DOMAIN jobs[id] \ (DOMAIN patch \cup {"updatedAt"}) :
                          f \in DOMAIN disk'[id]]_vars

\* The record has an outputPath its snapshot never got.
C22_Witness ==
    /\ resp.kind = "update"
    /\ resp.id \in DOMAIN jobs /\ resp.id \in DOMAIN disk
    /\ "outputPath" \in DOMAIN jobs[resp.id]
    /\ "outputPath" \notin DOMAIN disk[resp.id]
    /\ jobs[resp.id].status = "done"

\* C23: pollJobStatus asks the server at most MAX_POLL_ATTEMPTS times and
\* always stops; past the limit it marks the job failed in the extension's
\* own list; no run of poll() changes the server's record, snapshot or files.
TimedOut(id) ==
    /\ poll[id].pc = "stopped"
    /\ findIndex(activeJobs, id) # 0
    /\ activeJobs[findIndex(activeJobs, id)].status = "error"
    /\ activeJobs[findIndex(activeJobs, id)].error
          = "Conversion timeout - please try again"

C23_PollingGivesUp ==
    /\ [](\A id \in JobIds :
             /\ poll[id].queries <= MAX_POLL_ATTEMPTS
             /\ poll[id].attempts > MAX_POLL_ATTEMPTS => TimedOut(id))
    /\ [][\A id \in JobIds, networkOk \in BOOLEAN :
             Poll(id, networkOk)
             => /\ disk' = disk /\ files' = files
                /\ HasJob(jobs', disk', id) = HasJob(jobs, disk, id)
                /\ HasJob(jobs, disk, id)
                      => getJob(jobs', disk', id) = getJob(jobs, disk, id)]_vars
    /\ \A id \in JobIds : (poll[id].pc = "waiting") ~> (poll[id].pc = "stopped")

\* The poller gave up on a job the server is still running.
C23_Witness ==
    \E id \in DOMAIN jobs :
        /\ TimedOut(id)
        /\ poll[id].queries = MAX_POLL_ATTEMPTS
        /\ jobs[id].status = "running"

\* C24: after any sequence of addToHistory calls the history has at most 50
\* items, the newest first, and what is missing is the oldest ones only.
C24_HistoryNewestFirstCapped ==
    /\ Len(history) <= HistoryLimit
    /\ \A i \in 1..(Len(history) - 1) : history[i].jobId = history[i + 1].jobId + 1
    /\ history # <<>> => Len(history) = Min(history[1].jobId, HistoryLimit)

C24_Witness ==
    /\ Len(history) = HistoryLimit
    /\ history[1].jobId = HistoryLimit + 10
    /\ history[HistoryLimit].jobId = 11

\* C25: every job a create-job request has recorded ends up done or error,
\* given that each awaited call settles, also when the step between the
\* record's creation and the start of the asynchronous execution fails.
C25_EventuallyFinalized ==
    \A id \in JobIds :
        (id \in DOMAIN jobs) ~> (id \in DOMAIN jobs /\ jobs[id].status \in Terminal)

\* C26: when the encoder of a remote-source job is called, the stored progress
\* is exactly 50 and the status running, whatever the download reported.
C26_EncodeStartsAtFifty ==
    [][\A id \in JobIds :
          (run[id].kind = "youtube" /\ run[id].pc = "fetch" /\ run'[id].pc = "encode")
          => /\ id \in DOMAIN jobs'
             /\ jobs'[id].status = "running"
             /\ jobs'[id].progress = 50]_vars

\* The encoder has been called although the download left no file, the last
\* report of the download being well under 100.
C26_Witness ==
    \E id \in DOMAIN jobs :
        /\ run[id].kind = "youtube" /\ run[id].pc = "encode"
        /\ ~run[id].tempFileExists
        /\ jobs[id].status = "running" /\ jobs[id].progress = 50

Artifacts(job) ==
    {job.inputPath} \cup
    (IF "outputPath" \in DOMAIN job THEN {job.outputPath} ELSE {})

\* C29: no pass of the sweeper (job sweep, then temp-file sweep) deletes the
\* input or the output artifact of a job that is queued or running.
C29_SweeperSparesLiveJobs ==
    [][SweepPass =>
          \A id \in DOMAIN jobs :
              jobs[id].status \in {"queued", "running"}
              => \A p \in Artifacts(jobs[id]) :
                     p \in DOMAIN files => p \in DOMAIN files']_vars

\* The record after the first k of the issued calls, in order.
RECURSIVE ApplyPrefix(_)
ApplyPrefix(k) ==
    IF k = 1 THEN issued[1].patch
    ELSE Spread(Spread(ApplyPrefix(k - 1), issued[k].patch),
                [updatedAt |-> issued[k].at])

\* C28: however updateJob calls and status reads of one job interleave, a
\* read returns the record some prefix of the issued updates produces, never
\* a mix of two updates, and the stored record has, for every field any
\* update set, the value of the last update that set it.
C28_ReadsSeePrefixes ==
    /\ resp.kind = "read" => \E k \in 1..Len(issued) : resp.job = ApplyPrefix(k)
    /\ \A i \in 2..Len(issued) :
           \A f \in DOMAIN issued[i].patch :
               (\A j \in (i + 1)..Len(issued) : f \notin DOMAIN issued[j].patch)
               => /\ 1 \in DOMAIN jobs
                  /\ f \in DOMAIN jobs[1]
                  /\ jobs[1][f] = issued[i].patch[f]

\* A poll has read the record between two updates: its response carries the
\* first update and not the second, the stored record carries both.
C28_Witness ==
    /\ resp.kind = "read"
    /\ Len(issued) = 3
    /\ issued[2].patch = [outputPath |-> "temp/out.mp3"]
    /\ issued[3].patch = [status |-> "done", progress |-> 100]
    /\ resp.job = ApplyPrefix(2)
    /\ resp.job.status = "queued"
    /\ jobs[1].status = "done" /\ jobs[1].outputPath = "temp/out.mp3"

\* C30: when the storage calls of different conversions interleave, no
\* completed call is lost: once no call is in flight the stored list has
\* every added and not removed job, with its latest update, and no removed
\* job.
C30_NoActiveJobLost ==
    (\A c \in Convs : inflight[c].op = "none")
    => \A c \in Convs :
          /\ inflight[c].stage = "active"
             => \E i \in 1..Len(activeJobs) :
                   /\ activeJobs[i].jobId = c
                   /\ \A f \in DOMAIN inflight[c].last :
                          activeJobs[i][f] = inflight[c].last[f]
          /\ inflight[c].stage = "gone"
             => \A i \in 1..Len(activeJobs) : activeJobs[i].jobId # c

====
